---------------------------- MODULE Spec2Model ----------------------------
(***************************************************************************)
(* A model of jn0/go-json: the JSON value model (json_values.go) and the   *)
(* recursive-descent parser (json_parsers.go).                             *)
(*                                                                         *)
(* Text is a sequence of code points.  Every text that the code indexes or *)
(* measures is ASCII, so a byte index of the Go string is a rune index and *)
(* len() counts characters.  A JsonValue (the Go interface value) is a     *)
(* record:                                                                 *)
(*   [tag |-> "nil"]                         the nil interface             *)
(*   [tag |-> T, nilptr |-> TRUE]            a nil pointer of type *T      *)
(*   [tag |-> T, nilptr |-> FALSE, val ...]  a pointer to a payload        *)
(* and a container also has nilstore, TRUE for a nil slice or a nil map.   *)
(***************************************************************************)
EXTENDS Integers, Sequences, FiniteSets, TLC

VARIABLES
    inp,    \* how the text was written: [kind, doc, ...], see Inputs
    txt,    \* the text handed to a parse routine
    self,   \* the receiver of the method calls (the JsonValue under test)
    other,  \* the second operand of Equal
    pre,    \* the receiver as it was before the last call
    op,     \* the last call: [name, ...its arguments]
    out     \* what the last call returned: [v, t, e, panic] or [r, panic]

vars == <<inp, txt, self, other, pre, op, out>>

(***************************************************************************)
(* Characters                                                              *)
(***************************************************************************)
Printable ==
    << " ", "!", "\"", "#", "$", "%", "&", "'", "(", ")", "*", "+", ",", "-",
       ".", "/", "0", "1", "2", "3", "4", "5", "6", "7", "8", "9", ":", ";",
       "<", "=", ">", "?", "@", "A", "B", "C", "D", "E", "F", "G", "H", "I",
       "J", "K", "L", "M", "N", "O", "P", "Q", "R", "S", "T", "U", "V", "W",
       "X", "Y", "Z", "[", "\\", "]", "^", "_", "backquote", "a", "b", "c", "d", "e",
       "f", "g", "h", "i", "j", "k", "l", "m", "n", "o", "p", "q", "r", "s",
       "t", "u", "v", "w", "x", "y", "z", "{", "|", "}", "~" >>

\* The code point of a printable ASCII character: Printable[1] is U+0020.
Ord ==
    [c \in {Printable[i] : i \in DOMAIN Printable} |->
        31 + (CHOOSE i \in DOMAIN Printable : Printable[i] = c)]

\* A Go string literal, written as a tuple of one-character strings.
Str(s) == [i \in 1..Len(s) |-> Ord[s[i]]]

\* A Go character literal.
Ch(c) == Ord[c]

\* The control characters Go's escapes \a \b \t \n \v \f \r name.
Ctl == [a |-> 7, b |-> 8, t |-> 9, n |-> 10, v |-> 11, f |-> 12, r |-> 13]

(***************************************************************************)
(* The library routines the code calls (strings, strconv, fmt)             *)
(***************************************************************************)
\* unicode.IsSpace, as strings.TrimSpace uses it (the Latin-1 range).
IsSpace(c) == c \in {Ctl.t, Ctl.n, Ctl.v, Ctl.f, Ctl.r, Ch(" "), 133, 160}

RECURSIVE TrimLeft(_)
TrimLeft(s) == IF s # <<>> /\ IsSpace(Head(s)) THEN TrimLeft(Tail(s)) ELSE s

RECURSIVE TrimRight(_)
TrimRight(s) ==
    IF s # <<>> /\ IsSpace(s[Len(s)]) THEN TrimRight(SubSeq(s, 1, Len(s) - 1)) ELSE s

\* strings.TrimSpace
TrimSpace(s) == TrimRight(TrimLeft(s))

\* s[n:] of Go, n counted from 0.
From(s, n) == SubSeq(s, n + 1, Len(s))

\* strings.HasPrefix
HasPrefix(s, p) == Len(s) >= Len(p) /\ SubSeq(s, 1, Len(p)) = p

\* strings.ToLower on ASCII text.
ToLower(s) ==
    [i \in 1..Len(s) |-> IF s[i] \in Ch("A")..Ch("Z") THEN s[i] + (Ch("a") - Ch("A")) ELSE s[i]]

IsDecDigit(c) == c \in Ch("0")..Ch("9")

\* The value of a digit of strconv.ParseUint: 0..35, or 36 for no digit.
DigitVal(c) ==
    IF c \in Ch("0")..Ch("9") THEN c - Ch("0")
    ELSE IF c \in Ch("a")..Ch("z") THEN c - Ch("a") + 10
    ELSE IF c \in Ch("A")..Ch("Z") THEN c - Ch("A") + 10
    ELSE 36

RECURSIVE UintVal(_, _, _)
UintVal(s, base, acc) ==
    IF s = <<>> THEN acc ELSE UintVal(Tail(s), base, acc * base + DigitVal(Head(s)))

\* strconv.ParseInt(s, base, 64) for an explicit base: an optional sign and
\* at least one digit below the base, nothing else.  The texts of the model
\* are too short to leave the 64-bit range.
ParseInt(s, base) ==
    LET signed == s # <<>> /\ Head(s) \in {Ch("+"), Ch("-")}
        digs == IF signed THEN Tail(s) ELSE s
        good == digs # <<>> /\ \A i \in 1..Len(digs) : DigitVal(digs[i]) < base
        mag == UintVal(digs, base, 0)
    IN  IF ~good THEN [ok |-> FALSE, val |-> 0]
        ELSE [ok |-> TRUE, val |-> IF signed /\ Head(s) = Ch("-") THEN 0 - mag ELSE mag]

RECURSIVE DigitRun(_, _)
\* How many decimal digits s has from position i (counted from 1) on.
DigitRun(s, i) == IF i <= Len(s) /\ IsDecDigit(s[i]) THEN 1 + DigitRun(s, i + 1) ELSE 0

RECURSIVE Pow10(_)
Pow10(n) == IF n = 0 THEN 1 ELSE 10 * Pow10(n - 1)

RECURSIVE Normal(_)
\* A decimal (-1)^neg * num / 10^exp without trailing fraction zeros.
Normal(d) ==
    IF d.exp > 0 /\ d.num % 10 = 0
    THEN Normal([neg |-> d.neg, num |-> d.num \div 10, exp |-> d.exp - 1])
    ELSE d

ZeroFloat == [neg |-> FALSE, num |-> 0, exp |-> 0]

\* The decimal mant * 10^(-sc), sc of either sign.
Scaled(neg, mant, sc) ==
    IF sc >= 0 THEN Normal([neg |-> neg, num |-> mant, exp |-> sc])
    ELSE [neg |-> neg, num |-> mant * Pow10(0 - sc), exp |-> 0]

RECURSIVE FloatScan(_, _, _, _, _, _, _, _, _, _)
\* The scan of strconv.ParseFloat over s from position i on.  ph is what
\* may come next: "sign", "int" and "frac" digits of the mantissa, "esign"
\* and "exp" digits of the exponent.  neg and mant are the mantissa so far,
\* nd the number of its digits and sc of its fraction digits; eneg, ex and
\* ne the same for the exponent.
FloatScan(s, i, ph, neg, mant, nd, sc, eneg, ex, ne) ==
    IF i > Len(s)
    THEN IF nd > 0 /\ (ph \in {"int", "frac"} \/ (ph = "exp" /\ ne > 0))
         THEN [ok |-> TRUE, val |-> Scaled(neg, mant, IF eneg THEN sc + ex ELSE sc - ex)]
         ELSE [ok |-> FALSE, val |-> ZeroFloat]
    ELSE IF ph = "sign"
    THEN IF s[i] \in {Ch("+"), Ch("-")}
         THEN FloatScan(s, i + 1, "int", s[i] = Ch("-"), mant, nd, sc, eneg, ex, ne)
         ELSE FloatScan(s, i, "int", neg, mant, nd, sc, eneg, ex, ne)
    ELSE IF ph = "esign"
    THEN IF s[i] \in {Ch("+"), Ch("-")}
         THEN FloatScan(s, i + 1, "exp", neg, mant, nd, sc, s[i] = Ch("-"), ex, ne)
         ELSE FloatScan(s, i, "exp", neg, mant, nd, sc, eneg, ex, ne)
    ELSE IF ph = "exp"
    THEN IF IsDecDigit(s[i])
         THEN FloatScan(s, i + 1, ph, neg, mant, nd, sc, eneg, ex * 10 + DigitVal(s[i]), ne + 1)
         ELSE [ok |-> FALSE, val |-> ZeroFloat]
    ELSE IF IsDecDigit(s[i])
    THEN FloatScan(s, i + 1, ph, neg, mant * 10 + DigitVal(s[i]), nd + 1,
                   IF ph = "frac" THEN sc + 1 ELSE sc, eneg, ex, ne)
    ELSE IF ph = "int" /\ s[i] = Ch(".")
    THEN FloatScan(s, i + 1, "frac", neg, mant, nd, sc, eneg, ex, ne)
    ELSE IF nd > 0 /\ s[i] \in {Ch("e"), Ch("E")}
    THEN FloatScan(s, i + 1, "esign", neg, mant, nd, sc, eneg, ex, ne)
    ELSE [ok |-> FALSE, val |-> ZeroFloat]

\* strconv.ParseFloat(s, 64) on decimal text: [sign] digits [. digits]
\* [e|E [sign] digits], with a digit in the mantissa.  A float64 is kept as
\* the decimal it was read from: the decimals of the model have few enough
\* digits that two of them are the same float64 only if they are the same
\* number.  The texts of the model spell no inf, nan, hex float or
\* underscore.
ParseFloat(s) == FloatScan(s, 1, "sign", FALSE, 0, 0, 0, FALSE, 0, 0)

\* == on two float64: the zeros of both signs are equal.
FloatEq(f, g) == f.num = g.num /\ f.exp = g.exp /\ (f.neg = g.neg \/ f.num = 0)

RECURSIVE Digits(_)
\* The decimal digits of a natural number.
Digits(n) == IF n < 10 THEN <<Ch("0") + n>> ELSE Digits(n \div 10) \o <<Ch("0") + (n % 10)>>

\* fmt.Sprintf("%d", n)
FormatInt(n) == IF n < 0 THEN <<Ch("-")>> \o Digits(0 - n) ELSE Digits(n)

RECURSIVE PadLeft(_, _)
PadLeft(s, n) == IF Len(s) >= n THEN s ELSE PadLeft(<<Ch("0")>> \o s, n)

\* fmt.Sprintf("%f", f): fixed point with 6 fraction digits.  The decimals of
\* the model have at most 6 fraction digits, so nothing is rounded.
FormatFloat(f) ==
    LET whole == Digits(f.num \div Pow10(f.exp))
        frac == IF f.exp = 0 THEN <<>> ELSE PadLeft(Digits(f.num % Pow10(f.exp)), f.exp)
        zeros == [i \in 1..(6 - f.exp) |-> Ch("0")]
    IN  (IF f.neg THEN <<Ch("-")>> ELSE <<>>) \o whole \o <<Ch(".")>> \o frac \o zeros

HexDigit(n) == IF n < 10 THEN Ch("0") + n ELSE Ch("a") + (n - 10)

\* strconv.IsPrint, on ASCII.  Above ASCII the model serializes nothing.
IsPrint(c) == c \in Ch(" ")..Ch("~")

\* One rune as strconv.Quote writes it.
QuoteRune(c) ==
    IF c = Ch("\"") \/ c = Ch("\\") THEN <<Ch("\\"), c>>
    ELSE IF IsPrint(c) THEN <<c>>
    ELSE IF c = Ctl.a THEN Str(<<"\\", "a">>)
    ELSE IF c = Ctl.b THEN Str(<<"\\", "b">>)
    ELSE IF c = Ctl.f THEN Str(<<"\\", "f">>)
    ELSE IF c = Ctl.n THEN Str(<<"\\", "n">>)
    ELSE IF c = Ctl.r THEN Str(<<"\\", "r">>)
    ELSE IF c = Ctl.t THEN Str(<<"\\", "t">>)
    ELSE IF c = Ctl.v THEN Str(<<"\\", "v">>)
    ELSE IF c < Ch(" ") \/ c = 127
         THEN Str(<<"\\", "x">>) \o <<HexDigit(c \div 16), HexDigit(c % 16)>>
    ELSE Str(<<"\\", "u">>)
         \o <<HexDigit(c \div 4096), HexDigit((c \div 256) % 16),
              HexDigit((c \div 16) % 16), HexDigit(c % 16)>>

RECURSIVE QuoteBody(_)
QuoteBody(s) == IF s = <<>> THEN <<>> ELSE QuoteRune(Head(s)) \o QuoteBody(Tail(s))

\* fmt.Sprintf("%q", s) = strconv.Quote(s)
Quote(s) == <<Ch("\"")>> \o QuoteBody(s) \o <<Ch("\"")>>

RECURSIVE Join(_, _)
\* strings.Join
Join(parts, sep) ==
    IF parts = <<>> THEN <<>>
    ELSE IF Len(parts) = 1 THEN parts[1]
    ELSE parts[1] \o sep \o Join(Tail(parts), sep)

\* a < b for two Go strings (byte-wise, as sort.Strings orders them).
RECURSIVE StrLess(_, _)
StrLess(a, b) ==
    IF b = <<>> THEN FALSE
    ELSE IF a = <<>> THEN TRUE
    ELSE IF Head(a) # Head(b) THEN Head(a) < Head(b)
    ELSE StrLess(Tail(a), Tail(b))

RECURSIVE KeysDescending(_)
\* The keys of a map as a loop over it may meet them when nothing sorts
\* them: here, the last first.
KeysDescending(keys) ==
    IF keys = {} THEN <<>>
    ELSE LET m == CHOOSE k \in keys : \A x \in keys \ {k} : StrLess(x, k)
         IN  <<m>> \o KeysDescending(keys \ {m})

RECURSIVE SortStrings(_)
\* sort.Strings on the keys of a map: the keys in ascending order.
SortStrings(keys) ==
    IF keys = {} THEN <<>>
    ELSE LET m == CHOOSE k \in keys : \A x \in keys \ {k} : StrLess(k, x)
         IN  <<m>> \o SortStrings(keys \ {m})

(***************************************************************************)
(* The value model: json_values.go                                         *)
(***************************************************************************)
\* The nil interface value: an absent slot, or what parseNull yields.
NilValue == [tag |-> "nil"]

\* A nil pointer of one of the six pointer types.
NilPtr(tag) == [tag |-> tag, nilptr |-> TRUE]

JInt(n) == [tag |-> "int", nilptr |-> FALSE, int |-> n]
JFloat(f) == [tag |-> "float", nilptr |-> FALSE, float |-> f]
JBool(b) == [tag |-> "bool", nilptr |-> FALSE, bool |-> b]
JString(s) == [tag |-> "string", nilptr |-> FALSE, str |-> s]
\* A slice with elements, or (elems = <<>>) an empty slice that is not nil.
JArray(elems) == [tag |-> "array", nilptr |-> FALSE, nilstore |-> FALSE, elems |-> elems]
\* A map with entries, or an empty map that is not nil.
JObject(m) == [tag |-> "object", nilptr |-> FALSE, nilstore |-> FALSE, entries |-> m]

\* The empty mapping.
NoEntries == [k \in {} |-> NilValue]

\* new(T): a pointer to the zero value of T.
New(tag) ==
    CASE tag = "int" -> JInt(0)
      [] tag = "float" -> JFloat(ZeroFloat)
      [] tag = "bool" -> JBool(FALSE)
      [] tag = "string" -> JString(<<>>)
      [] tag = "array" -> [tag |-> "array", nilptr |-> FALSE, nilstore |-> TRUE, elems |-> <<>>]
      [] tag = "object" -> [tag |-> "object", nilptr |-> FALSE, nilstore |-> TRUE, entries |-> NoEntries]

Tags == {"int", "float", "bool", "string", "array", "object"}

JsonInt_IsNull(x) == x.nilptr
JsonFloat_IsNull(x) == x.nilptr
JsonBool_IsNull(x) == x.nilptr
\* JsonString.IsNull that takes only the nil pointer for null.
JsonString_IsNull_NilOnly(x) == x.nilptr
JsonString_IsNull(x) == x.nilptr \/ x.str = <<>>
JsonArray_IsNull(x) == x.nilptr \/ x.nilstore
JsonObject_IsNull(x) == x.nilptr \/ x.nilstore

\* v.IsNull() through the interface; v is not the nil interface.
IsNull(v) ==
    CASE v.tag = "int" -> JsonInt_IsNull(v)
      [] v.tag = "float" -> JsonFloat_IsNull(v)
      [] v.tag = "bool" -> JsonBool_IsNull(v)
      [] v.tag = "string" -> JsonString_IsNull(v)
      [] v.tag = "array" -> JsonArray_IsNull(v)
      [] v.tag = "object" -> JsonObject_IsNull(v)

NullText == Str(<<"n", "u", "l", "l">>)

JsonInt_Json(x) == IF JsonInt_IsNull(x) THEN NullText ELSE FormatInt(x.int)
JsonFloat_Json(x) == IF JsonFloat_IsNull(x) THEN NullText ELSE FormatFloat(x.float)
JsonBool_Json(x) ==
    IF JsonBool_IsNull(x) THEN NullText
    ELSE IF x.bool THEN Str(<<"t", "r", "u", "e">>) ELSE Str(<<"f", "a", "l", "s", "e">>)
JsonString_Json(x) == IF JsonString_IsNull(x) THEN NullText ELSE Quote(x.str)

RECURSIVE Json(_)
JsonArray_Json(x) ==
    IF JsonArray_IsNull(x) THEN NullText
    ELSE LET r == [i \in 1..Len(x.elems) |->
                      IF x.elems[i] = NilValue THEN NullText ELSE Json(x.elems[i])]
         IN  Str(<<"[", " ">>) \o Join(r, Str(<<",", " ">>)) \o Str(<<" ", "]">>)

JsonObject_Json(x) ==
    IF x.nilptr \/ x.nilstore THEN NullText
    ELSE LET keys == SortStrings(DOMAIN x.entries)
             r == [i \in 1..Len(keys) |->
                      LET o == x.entries[keys[i]]
                      IN  Quote(keys[i]) \o Str(<<":", " ">>)
                          \o (IF o = NilValue THEN NullText ELSE Json(o))]
         IN  Str(<<"{", " ">>) \o Join(r, Str(<<",", " ">>)) \o Str(<<" ", "}">>)

\* v.Json() through the interface; v is not the nil interface.
Json(v) ==
    CASE v.tag = "int" -> JsonInt_Json(v)
      [] v.tag = "float" -> JsonFloat_Json(v)
      [] v.tag = "bool" -> JsonBool_Json(v)
      [] v.tag = "string" -> JsonString_Json(v)
      [] v.tag = "array" -> JsonArray_Json(v)
      [] v.tag = "object" -> JsonObject_Json(v)

(***************************************************************************)
(* Equal.  A call either returns a boolean or panics, and the order in     *)
(* which cmpMap ranges over a map is not specified, so every Equal below   *)
(* is the set of the outcomes the call can have: a subset of               *)
(* {"true", "false", "panic"}.                                             *)
(***************************************************************************)
B(b) == IF b THEN "true" ELSE "false"

RECURSIVE Equal(_, _)

\* JsonInt.Equal that takes every value in its null state for a null
\* Integer.
JsonInt_Equal_AnyNull(x, v) ==
    IF v.tag = "nil" \/ IsNull(v) THEN {B(JsonInt_IsNull(x))}
    ELSE IF v.tag = "int" THEN {B(~JsonInt_IsNull(x) /\ x.int = v.int)}
    ELSE {"false"}

JsonInt_Equal(x, v) ==
    IF v.tag = "nil" THEN {B(JsonInt_IsNull(x))}
    ELSE IF v.tag = "int"
         THEN IF JsonInt_IsNull(v) THEN {B(JsonInt_IsNull(x))}
              ELSE {B(~JsonInt_IsNull(x) /\ x.int = v.int)}
    ELSE {"false"}

JsonFloat_Equal(x, v) ==
    IF v.tag = "nil" THEN {B(JsonFloat_IsNull(x))}
    ELSE IF v.tag = "float"
         THEN IF JsonFloat_IsNull(v) THEN {B(JsonFloat_IsNull(x))}
              ELSE {B(~JsonFloat_IsNull(x) /\ FloatEq(x.float, v.float))}
    ELSE {"false"}

JsonBool_Equal(x, v) ==
    IF v.tag = "nil" THEN {B(JsonBool_IsNull(x))}
    ELSE IF v.tag = "bool"
         THEN IF JsonBool_IsNull(v) THEN {B(JsonBool_IsNull(x))}
              ELSE {B(~JsonBool_IsNull(x) /\ x.bool = v.bool)}
    ELSE {"false"}

JsonString_Equal(x, v) ==
    IF v.tag = "nil" THEN {B(JsonString_IsNull(x))}
    ELSE IF v.tag = "string"
         THEN IF JsonString_IsNull(v) THEN {B(JsonString_IsNull(x))}
              ELSE {B(~JsonString_IsNull(x) /\ x.str = v.str)}
    ELSE {"false"}

\* v == nil || v.IsNull() for a slot of a container.
SlotIsNull(v) == v = NilValue \/ IsNull(v)

RECURSIVE ArrayEqualLoop(_, _, _)
\* The loop of JsonArray.Equal from index i on: it returns at the first
\* pair that is not equal.
ArrayEqualLoop(a, b, i) ==
    IF i > Len(a) THEN {"true"}
    ELSE LET v == a[i]
             o == b[i]
             step == IF SlotIsNull(v) /\ SlotIsNull(o) THEN {"true"}
                     ELSE IF v = NilValue \/ o = NilValue THEN {"false"}
                     ELSE Equal(v, o)
         IN  (step \ {"true"}) \cup (IF "true" \in step THEN ArrayEqualLoop(a, b, i + 1) ELSE {})

JsonArray_Equal(x, v) ==
    IF v.tag = "nil" THEN {B(JsonArray_IsNull(x))}
    ELSE IF v.tag = "array"
         THEN IF JsonArray_IsNull(v) THEN {B(JsonArray_IsNull(x))}
              ELSE IF JsonArray_IsNull(x) THEN {"false"}
              ELSE IF Len(x.elems) # Len(v.elems) THEN {"false"}
              ELSE ArrayEqualLoop(x.elems, v.elems, 1)
    ELSE {"false"}

\* One round of the loop of cmpMap, for key k of m1: "true" stands for
\* going on to the next key.  v.Equal(o) on a nil interface v is a nil
\* dereference.
CmpMapStep(m1, m2, k) ==
    IF k \notin DOMAIN m2 THEN {"false"}
    ELSE LET v == m1[k]
             o == m2[k]
         IN  IF SlotIsNull(v) /\ SlotIsNull(o) THEN {"true"}
             ELSE IF v = NilValue THEN {"panic"}
             ELSE Equal(v, o)

\* cmpMap ranges over m1 in an order that is not specified and returns at
\* the first key that does not compare equal.
cmpMap(m1, m2) ==
    IF Cardinality(DOMAIN m1) # Cardinality(DOMAIN m2) THEN {"false"}
    ELSE (UNION {CmpMapStep(m1, m2, k) \ {"true"} : k \in DOMAIN m1})
         \cup (IF \A k \in DOMAIN m1 : "true" \in CmpMapStep(m1, m2, k) THEN {"true"} ELSE {})

JsonObject_Equal(x, v) ==
    IF v.tag = "nil" THEN {B(JsonObject_IsNull(x))}
    ELSE IF v.tag = "object"
         THEN IF JsonObject_IsNull(v) THEN {B(JsonObject_IsNull(x))}
              ELSE IF JsonObject_IsNull(x) THEN {"false"}
              ELSE LET there == cmpMap(x.entries, v.entries)
                   IN  (there \ {"true"})
                       \cup (IF "true" \in there THEN cmpMap(v.entries, x.entries) ELSE {})
    ELSE {"false"}

\* x.Equal(v) through the interface; a method call on the nil interface is
\* a nil dereference.
Equal(x, v) ==
    CASE x.tag = "nil" -> {"panic"}
      [] x.tag = "int" -> JsonInt_Equal(x, v)
      [] x.tag = "float" -> JsonFloat_Equal(x, v)
      [] x.tag = "bool" -> JsonBool_Equal(x, v)
      [] x.tag = "string" -> JsonString_Equal(x, v)
      [] x.tag = "array" -> JsonArray_Equal(x, v)
      [] x.tag = "object" -> JsonObject_Equal(x, v)

(***************************************************************************)
(* The methods that change the receiver.  The receiver x is a pointer that *)
(* is not nil.  A call yields [self, e, panic]: the receiver after the     *)
(* call, the error it returned ("nil" for none, and for a method that      *)
(* returns no error) and whether it panicked: a panic leaves the receiver  *)
(* as the statements before it made it.                                    *)
(*                                                                         *)
(* An argument of type interface{} is [kind |-> k, val |-> v]: kind is the *)
(* Go type, "nil" for the nil interface and "*Json" for a pointer to one   *)
(* of the six types (val is then the JsonValue, and isself says that the   *)
(* pointer is the receiver itself).                                        *)
(***************************************************************************)
Done(x) == [self |-> x, e |-> "nil", panic |-> FALSE]
Failed(x, err) == [self |-> x, e |-> err, panic |-> FALSE]
Panicked(x) == [self |-> x, e |-> "nil", panic |-> TRUE]

NilArg == [kind |-> "nil"]
Native(kind, val) == [kind |-> kind, val |-> val]
Ptr(v) == [kind |-> "*Json", val |-> v, isself |-> FALSE]
SelfPtr(v) == [kind |-> "*Json", val |-> v, isself |-> TRUE]

\* c is a pointer of type *T.
IsPtrTo(c, tag) == c.kind = "*Json" /\ c.val.tag = tag

RECURSIVE JsonInt_Parse(_, _)
JsonInt_Set(x, c) ==
    IF c.kind \in {"int", "int8", "int16", "int32", "int64"} THEN Done(JInt(c.val))
    ELSE IF c.kind = "string"
         THEN LET r == JsonInt_Parse(x, c.val) IN [r EXCEPT !.e = "nil"]
    ELSE Panicked(x)

JsonInt_Parse(x, s) ==
    LET r == ParseInt(s, 10)
    IN  IF ~r.ok THEN Failed(x, "strconv") ELSE JsonInt_Set(x, Native("int64", r.val))

JsonInt_Append(x, c) == Panicked(x)
JsonInt_Insert(x, n, c) == Panicked(x)

JsonFloat_Parse(x, s) ==
    LET r == ParseFloat(s)
    IN  IF ~r.ok THEN Failed(x, "strconv") ELSE Done(JFloat(r.val))

\* JsonFloat.Set that takes the integers too.
JsonFloat_Set_Integers(x, c) ==
    IF c.kind \in {"float32", "float64"} THEN Done(JFloat(c.val))
    ELSE IF c.kind \in {"int", "int8", "int16", "int32", "int64"}
         THEN Done(JFloat([neg |-> c.val < 0, num |-> IF c.val < 0 THEN 0 - c.val ELSE c.val,
                           exp |-> 0]))
    ELSE IF c.kind = "string"
         THEN LET r == JsonFloat_Parse(x, c.val) IN [r EXCEPT !.e = "nil"]
    ELSE Panicked(x)

JsonFloat_Set(x, c) ==
    IF c.kind \in {"float32", "float64"} THEN Done(JFloat(c.val))
    ELSE IF c.kind = "string"
         THEN LET r == JsonFloat_Parse(x, c.val) IN [r EXCEPT !.e = "nil"]
    ELSE Panicked(x)

JsonFloat_Append(x, c) == Panicked(x)
JsonFloat_Insert(x, n, c) == Panicked(x)

boolStringValues == {Str(<<"t", "r", "u", "e">>), Str(<<"f", "a", "l", "s", "e">>)}

RECURSIVE JsonBool_Parse(_, _)
JsonBool_Set(x, c) ==
    IF c.kind = "bool" THEN Done(JBool(c.val))
    ELSE IF c.kind = "string"
         THEN LET r == JsonBool_Parse(x, c.val) IN [r EXCEPT !.e = "nil"]
    ELSE Panicked(x)

JsonBool_Parse(x, s) ==
    LET word == ToLower(TrimSpace(s))
    IN  IF word \notin boolStringValues THEN Panicked(x)
        ELSE JsonBool_Set(x, Native("bool", word = Str(<<"t", "r", "u", "e">>)))

JsonBool_Append(x, c) == Panicked(x)
JsonBool_Insert(x, n, c) == Panicked(x)

\* Set(*JsonString) reads through the pointer it is given.
JsonString_Set(x, c) ==
    IF c.kind = "string" THEN Done(JString(c.val))
    ELSE IF IsPtrTo(c, "string")
         THEN IF c.val.nilptr THEN Panicked(x) ELSE Done(JString(c.val.str))
    ELSE Panicked(x)

JsonString_Append(x, c) == Panicked(x)
JsonString_Insert(x, n, c) == Panicked(x)

\* v.(JsonValue) of Append and Insert panics for an argument that is no
\* JsonValue.
JsonArray_Append(x, c) ==
    IF c.kind = "nil" THEN Done(JArray(Append(x.elems, NilValue)))
    ELSE IF c.kind = "*Json" THEN Done(JArray(Append(x.elems, c.val)))
    ELSE Panicked(x)

RECURSIVE AppendAll(_, _)
\* The loop of JsonArray.Set over a []JsonValue.
AppendAll(x, vs) ==
    IF vs = <<>> THEN x
    ELSE AppendAll(JsonArray_Append(x, IF Head(vs) = NilValue THEN NilArg ELSE Ptr(Head(vs))).self,
                   Tail(vs))

JsonArray_Set(x, c) ==
    IF IsPtrTo(c, "array")
    THEN IF c.val.nilptr THEN Panicked(x)
         ELSE Done([x EXCEPT !.nilstore = c.val.nilstore, !.elems = c.val.elems])
    ELSE IF c.kind = "[]JsonValue" THEN Done(AppendAll(x, c.val))
    ELSE Panicked(x)

JsonArray_Insert(x, n, c) == Panicked(x)

\* make(map[string]JsonValue) when the map is nil.
MadeMap(x) == IF x.nilstore THEN JObject(NoEntries) ELSE x

\* An assignment that leaves the map with the one entry n.
Assign_Alone(x, n, v) == [x EXCEPT !.entries = [k \in {n} |-> v]]

\* (*self)[n] = v
Assign(x, n, v) ==
    [x EXCEPT !.entries = [k \in DOMAIN x.entries \cup {n} |-> IF k = n THEN v ELSE x.entries[k]]]

\* JsonObject.Insert without the comparison of the argument with self.
JsonObject_Insert_NoSelfTest(x, n, c) ==
    LET m == MadeMap(x)
    IN  IF c.kind = "nil" THEN Done(Assign(m, n, NilValue))
        ELSE IF c.kind = "*Json" THEN Done(Assign(m, n, c.val))
        ELSE Panicked(m)

JsonObject_Insert(x, n, c) ==
    LET m == MadeMap(x)
    IN  IF c.kind = "nil" THEN Done(Assign(m, n, NilValue))
        ELSE IF IsPtrTo(c, "object") /\ c.isself THEN Panicked(m)
        ELSE IF c.kind = "*Json" THEN Done(Assign(m, n, c.val))
        ELSE Panicked(m)

RECURSIVE InsertAll(_, _, _)
\* The loop of JsonObject.Set over a map[string]JsonValue of fresh values:
\* no Insert of it panics, so the order of the keys does not matter.
InsertAll(x, m, keys) ==
    IF keys = {} THEN x
    ELSE LET k == CHOOSE k \in keys : TRUE
         IN  InsertAll(JsonObject_Insert(x, k, IF m[k] = NilValue THEN NilArg ELSE Ptr(m[k])).self,
                       m, keys \ {k})

JsonObject_Set(x, c) ==
    IF IsPtrTo(c, "object")
    THEN IF c.val.nilptr THEN Panicked(x)
         ELSE Done([x EXCEPT !.nilstore = c.val.nilstore, !.entries = c.val.entries])
    ELSE IF c.kind = "JsonObject"
         THEN Done([x EXCEPT !.nilstore = c.val.nilstore, !.entries = c.val.entries])
    ELSE IF c.kind = "map[string]JsonValue"
         THEN Done(InsertAll(JObject(NoEntries), c.val, DOMAIN c.val))
    ELSE Panicked(x)

JsonObject_Append(x, c) == Panicked(x)

\* NewJsonArray(v): the outcome of Set(v) on a new Array.
NewJsonArray(c) == JsonArray_Set(New("array"), c)

\* NewJsonObject(o)
NewJsonObject(o) == InsertAll(New("object"), o, DOMAIN o)

(***************************************************************************)
(* The parser: json_parsers.go.  A routine yields [v, t, e, panic]: the    *)
(* value (NilValue for none), the tail, the error ("nil" for none, else    *)
(* the name of the error type the code converts to) and whether it         *)
(* panicked.                                                               *)
(***************************************************************************)
Parsed(v, t, e) == [v |-> v, t |-> t, e |-> e, panic |-> FALSE]
ParsePanic == [v |-> NilValue, t |-> <<>>, e |-> "nil", panic |-> TRUE]

isDigit(c) == IsDecDigit(c)

\* string(rune(v)): a rune that is no Unicode scalar value becomes U+FFFD.
RuneString(v) == IF v < 0 \/ v \in 55296..57343 THEN <<65533>> ELSE <<v>>

\* The switch of getString on the character after a backslash.
Unescape(c) ==
    CASE c = Ch("b") -> <<Ctl.b>>
      [] c = Ch("f") -> <<Ctl.f>>
      [] c = Ch("n") -> <<Ctl.n>>
      [] c = Ch("r") -> <<Ctl.r>>
      [] c = Ch("t") -> <<Ctl.t>>
      [] c = Ch("u") -> <<>>
      [] OTHER -> <<c>>

RECURSIVE GetStringLoop(_, _, _, _, _, _)
\* The loop of getString at index p of s[1:] (counted from 0).
GetStringLoop(s, p, escape, unicode, res, hex) ==
    IF p + 2 > Len(s)
    THEN [pos |-> IF p = 0 THEN 0 ELSE p - 1, res |-> res, ok |-> FALSE, panic |-> FALSE]
    ELSE LET c == s[p + 2]
         IN  IF unicode
             THEN LET h == Append(hex, c)
                  IN  IF Len(h) = 4
                      THEN LET r == ParseInt(h, 16)
                           IN  IF ~r.ok
                               THEN [pos |-> p, res |-> res, ok |-> FALSE, panic |-> TRUE]
                               ELSE GetStringLoop(s, p + 1, escape, FALSE,
                                                  res \o RuneString(r.val), <<>>)
                      ELSE GetStringLoop(s, p + 1, escape, unicode, res, h)
             ELSE IF escape
             THEN GetStringLoop(s, p + 1, FALSE, c = Ch("u"), res \o Unescape(c), hex)
             ELSE IF c = Ch("\\")
             THEN GetStringLoop(s, p + 1, TRUE, unicode, res, hex)
             ELSE IF c = Ch("\"")
             THEN [pos |-> p, res |-> res, ok |-> TRUE, panic |-> FALSE]
             ELSE GetStringLoop(s, p + 1, escape, unicode, Append(res, c), hex)

\* getString(s), for s that starts with a quote.
getString(s) == GetStringLoop(s, 0, FALSE, FALSE, <<>>, <<>>)

\* parseString after getString returned g.
StringEnd(s, g) ==
    IF g.panic THEN ParsePanic
    ELSE IF ~g.ok THEN Parsed(NilValue, <<>>, "SyntaxError")
    ELSE Parsed(JsonString_Set(New("string"), Native("string", g.res)).self,
                From(s, g.pos + 2), "nil")

\* parseString of the trimmed text.
StringBody(s) ==
    IF s = <<>> THEN Parsed(NilValue, <<>>, "NoValue")
    ELSE IF s[1] # Ch("\"") THEN Parsed(NilValue, <<>>, "SyntaxError")
    ELSE StringEnd(s, getString(s))

parseString(s0) == StringBody(TrimSpace(s0))

\* What parseNumber returns: the value and error of Parse, and the tail.
NumberParsed(r, t) == Parsed(r.self, t, r.e)

\* parseNumber that takes no decimal point: what ends the integer part is
\* the tail.
NumberFrom_NoFraction(s, p) ==
    NumberParsed(JsonInt_Parse(New("int"), SubSeq(s, 1, p - 1)), From(s, p - 1))

\* parseNumber after the integer part, which ends before position p of s:
\* with a decimal point at p the fraction digits follow, and the text is a
\* Float.
NumberFrom(s, p) ==
    IF p <= Len(s) /\ s[p] = Ch(".")
    THEN NumberParsed(JsonFloat_Parse(New("float"),
                                      SubSeq(s, 1, p - 1) \o <<Ch(".")>>
                                      \o SubSeq(s, p + 1, p + DigitRun(s, p + 1))),
                      From(s, p + DigitRun(s, p + 1)))
    ELSE NumberParsed(JsonInt_Parse(New("int"), SubSeq(s, 1, p - 1)), From(s, p - 1))

\* parseNumber of a text that is trimmed and not empty.
NumberSigned(s) ==
    IF s[1] = Ch("+") \/ s[1] = Ch("-")
    THEN NumberFrom(s, 2 + DigitRun(s, 2))
    ELSE NumberFrom(s, 1 + DigitRun(s, 1))

parseNumber(s0) ==
    IF TrimSpace(s0) = <<>> THEN Parsed(NilValue, <<>>, "NoValue")
    ELSE NumberSigned(TrimSpace(s0))

parseBool(s0) ==
    LET s == TrimSpace(s0)
    IN  IF s = <<>> THEN Parsed(NilValue, <<>>, "NoValue")
        ELSE IF HasPrefix(s, Str(<<"t", "r", "u", "e">>))
        THEN Parsed(JsonBool_Set(New("bool"), Native("bool", TRUE)).self,
                    TrimSpace(From(s, 4)), "nil")
        ELSE IF HasPrefix(s, Str(<<"f", "a", "l", "s", "e">>))
        THEN Parsed(JsonBool_Set(New("bool"), Native("bool", FALSE)).self,
                    TrimSpace(From(s, 5)), "nil")
        ELSE Parsed(NilValue, s, "BadValue")

\* parseNull that returns the whole text as the tail of a null literal.
parseNull_KeepsText(s0) ==
    LET s == TrimSpace(s0)
    IN  IF s = <<>> THEN Parsed(NilValue, <<>>, "NoValue")
        ELSE IF HasPrefix(s, NullText) THEN Parsed(NilValue, s, "nil")
        ELSE Parsed(NilValue, s, "BadValue")

parseNull(s0) ==
    LET s == TrimSpace(s0)
    IN  IF s = <<>> THEN Parsed(NilValue, <<>>, "NoValue")
        ELSE IF HasPrefix(s, NullText) THEN Parsed(NilValue, TrimSpace(From(s, 4)), "nil")
        ELSE Parsed(NilValue, s, "BadValue")

\* A JsonValue the parser made, as the interface{} argument of Append and
\* Insert.
AsArg(xv) == IF xv = NilValue THEN NilArg ELSE Ptr(xv)

RECURSIVE ParseValue(_)

\* What a loop of parseObject or parseArray leaves: [v, t, e, panic, ok],
\* v the container so far, t the text left, ok for the closing bracket.
LoopEnd(v, t, e, ok) == [v |-> v, t |-> t, e |-> e, panic |-> FALSE, ok |-> ok]
LoopPanic(v, t) == [v |-> v, t |-> t, e |-> "nil", panic |-> TRUE, ok |-> FALSE]

RECURSIVE ObjectLoop(_, _)

\* After a comma of an object: t4 is the trimmed text behind it.
ObjectComma(v1, t4) ==
    IF t4 = <<>> THEN LoopEnd(v1, t4, "MissedValue", FALSE) ELSE ObjectLoop(v1, t4)

\* After an entry was inserted: t3 is the trimmed text behind its value.
ObjectSep(v1, t3) ==
    IF t3 = <<>> THEN LoopEnd(v1, t3, "nil", FALSE)
    ELSE IF t3[1] = Ch("}") THEN LoopEnd(v1, TrimSpace(From(t3, 1)), "nil", TRUE)
    ELSE IF t3[1] = Ch(",") THEN ObjectComma(v1, TrimSpace(From(t3, 1)))
    ELSE LoopEnd(v1, t3, "BadTail", FALSE)

\* After ParseValue returned x for the value of the entry called name.
ObjectInsert(v, name, t2, x) ==
    IF x.panic THEN LoopPanic(v, t2)
    ELSE IF x.e # "nil" THEN LoopEnd(v, x.t, x.e, FALSE)
    ELSE ObjectSep(JsonObject_Insert(v, name, AsArg(x.v)).self, TrimSpace(x.t))

\* After the colon: t2 is the trimmed text behind it.
ObjectValue(v, name, t2) ==
    IF t2 = <<>> THEN LoopEnd(v, t2, "SyntaxError", FALSE)
    ELSE ObjectInsert(v, name, t2, ParseValue(t2))

\* After the name: t1 is the trimmed text behind its closing quote.
ObjectColon(v, name, t1) ==
    IF t1 = <<>> \/ t1[1] # Ch(":") THEN LoopEnd(v, t1, "SyntaxError", FALSE)
    ELSE ObjectValue(v, name, TrimSpace(From(t1, 1)))

\* After getString returned g for the name at the head of t.
ObjectName(v, t, g) ==
    IF g.panic THEN LoopPanic(v, t)
    ELSE IF ~g.ok THEN LoopEnd(v, t, "SyntaxError", FALSE)
    ELSE ObjectColon(v, g.res, TrimSpace(From(t, g.pos + 2)))

\* The loop of parseObject: v is the object so far, t the text left.
ObjectLoop(v, t) ==
    IF t = <<>> THEN LoopEnd(v, t, "nil", FALSE)
    ELSE IF t[1] # Ch("\"") THEN LoopEnd(v, t, "SyntaxError", FALSE)
    ELSE ObjectName(v, t, getString(t))

\* parseObject after its loop left l.
ObjectEnd(l) ==
    IF l.panic THEN ParsePanic
    ELSE IF l.e = "nil" /\ ~l.ok THEN Parsed(l.v, l.t, "SyntaxError")
    ELSE Parsed(l.v, l.t, l.e)

\* parseObject of the trimmed text.
ObjectBody(s) ==
    IF s = <<>> THEN Parsed(NilValue, <<>>, "NoValue")
    ELSE IF s[1] # Ch("{") THEN Parsed(NilValue, s, "SyntaxError")
    ELSE ObjectEnd(ObjectLoop(New("object"), TrimSpace(From(s, 1))))

parseObject(s0) == ObjectBody(TrimSpace(s0))

RECURSIVE ArrayLoop(_, _)

\* After a comma of an array: t4 is the trimmed text behind it.
ArrayComma(v1, t4) ==
    IF t4 = <<>> THEN LoopEnd(v1, t4, "MissedValue", FALSE) ELSE ArrayLoop(v1, t4)

\* After an element was appended: t3 is the trimmed text behind it.
ArraySep(v1, t3) ==
    IF t3 = <<>> THEN LoopEnd(v1, t3, "nil", FALSE)
    ELSE IF t3[1] = Ch("]") THEN LoopEnd(v1, TrimSpace(From(t3, 1)), "nil", TRUE)
    ELSE IF t3[1] = Ch(",") THEN ArrayComma(v1, TrimSpace(From(t3, 1)))
    ELSE LoopEnd(v1, t3, "BadTail", FALSE)

\* After ParseValue returned x for the element at the head of t.
ArrayAppend(v, t, x) ==
    IF x.panic THEN LoopPanic(v, t)
    ELSE IF x.e # "nil" THEN LoopEnd(v, x.t, x.e, FALSE)
    ELSE ArraySep(JsonArray_Append(v, AsArg(x.v)).self, TrimSpace(x.t))

\* The loop of parseArray: v is the array so far, t the text left.
ArrayLoop(v, t) ==
    IF t = <<>> THEN LoopEnd(v, t, "nil", FALSE) ELSE ArrayAppend(v, t, ParseValue(t))

\* parseArray after its loop, when it does not ask whether the closing
\* bracket was met.
ArrayEnd_NoCloseTest(l) ==
    IF l.panic THEN ParsePanic ELSE Parsed(l.v, l.t, l.e)

\* parseArray after its loop left l.
ArrayEnd(l) ==
    IF l.panic THEN ParsePanic
    ELSE IF l.e = "nil" /\ ~l.ok THEN Parsed(l.v, l.t, "SyntaxError")
    ELSE Parsed(l.v, l.t, l.e)

\* parseArray of the trimmed text.
ArrayBody(s) ==
    IF s = <<>> THEN Parsed(NilValue, <<>>, "NoValue")
    ELSE IF s[1] # Ch("[") THEN Parsed(NilValue, s, "SyntaxError")
    ELSE ArrayEnd(ArrayLoop(New("array"), TrimSpace(From(s, 1))))

parseArray(s0) == ArrayBody(TrimSpace(s0))

\* The switch of ParseValue on the first character of the trimmed text.
ValueSwitch(s) ==
    IF s = <<>> THEN Parsed(NilValue, <<>>, "NoValue")
    ELSE IF s[1] = Ch("{") THEN parseObject(s)
    ELSE IF s[1] = Ch("[") THEN parseArray(s)
    ELSE IF s[1] = Ch("\"") THEN parseString(s)
    ELSE IF s[1] \in {Ch("-"), Ch("+")} \cup (Ch("0")..Ch("9")) THEN parseNumber(s)
    ELSE IF s[1] \in {Ch("t"), Ch("f")} THEN parseBool(s)
    ELSE IF s[1] = Ch("n") THEN parseNull(s)
    ELSE Parsed(NilValue, <<>>, "BadValue")

\* ParseValue that does not trim the text.
ParseValue_Untrimmed(s0) == ValueSwitch(s0)

ParseValue(s0) == ValueSwitch(TrimSpace(s0))

\* Parse of the three variants that go through the parser, after the parse
\* routine returned r.
StringParsed(x, r) ==
    IF r.panic THEN Panicked(x)
    ELSE IF r.e # "nil" THEN Failed(x, r.e)
    ELSE IF r.t # <<>> THEN Failed(x, "SyntaxError")
    ELSE JsonString_Set(x, Ptr(r.v))

JsonString_Parse(x, s) == StringParsed(x, parseString(s))

ArrayParsed(x, r) ==
    IF r.panic THEN Panicked(x)
    ELSE IF r.e # "nil" THEN Failed(x, r.e)
    ELSE IF r.t # <<>> THEN Failed(x, "SyntaxError")
    ELSE JsonArray_Set(x, Ptr(r.v))

JsonArray_Parse(x, s) == ArrayParsed(x, parseArray(s))

ObjectParsed(x, r) ==
    IF r.panic THEN Panicked(x)
    ELSE IF r.e # "nil" THEN Failed(x, r.e)
    ELSE IF r.t # <<>> THEN Failed(x, "SyntaxError")
    ELSE JsonObject_Set(x, Ptr(r.v))

JsonObject_Parse(x, s) == ObjectParsed(x, parseObject(s))

(***************************************************************************)
(* The texts handed to the parser.  A document is [t, k, v]: a well-formed *)
(* JSON text, its kind, and the value it denotes.  Documents are written   *)
(* by the JSON grammar, not by the serializer: nested to MaxDepth, with up *)
(* to MaxLen elements in a container, compact or spaced.                   *)
(***************************************************************************)
MaxLen == 2
MaxDepth == 2

Doc(t, k, v) == [t |-> t, k |-> k, v |-> v]

ScalarDocs ==
    { Doc(Str(<<"1">>), "int", JInt(1)),
      Doc(Str(<<"-", "2", "0">>), "int", JInt(-20)),
      Doc(Str(<<"1", ".", "5">>), "float", JFloat([neg |-> FALSE, num |-> 15, exp |-> 1])),
      Doc(Str(<<"1", "e", "2">>), "float", JFloat([neg |-> FALSE, num |-> 100, exp |-> 0])),
      Doc(Str(<<"t", "r", "u", "e">>), "bool", JBool(TRUE)),
      Doc(Str(<<"f", "a", "l", "s", "e">>), "bool", JBool(FALSE)),
      Doc(NullText, "null", NilValue),
      Doc(Str(<<"\"", "a", "\"">>), "string", JString(Str(<<"a">>))),
      Doc(Str(<<"\"", "\"">>), "string", JString(<<>>)),
      Doc(Str(<<"\"", "\\", "n", "\\", "u", "0", "0", "4", "1", "\\", "\"", "\"">>), "string",
          JString(<<Ctl.n, Ch("A"), Ch("\"")>>)) }

EmptyDocs ==
    { Doc(Str(<<"[", "]">>), "array", JArray(<<>>)),
      Doc(Str(<<"[", " ", " ", "]">>), "array", JArray(<<>>)),
      Doc(Str(<<"{", " ", "}">>), "object", JObject(NoEntries)),
      Doc(Str(<<"{", "}">>), "object", JObject(NoEntries)) }

\* The documents that get nested.
CoreDocs ==
    { d \in ScalarDocs \cup EmptyDocs :
        d.t \in {Str(<<"1">>), NullText, Str(<<"\"", "a", "\"">>), Str(<<"[", "]">>)} }

\* What fills a container after its first element.
Fillers ==
    << Doc(NullText, "null", NilValue),
       Doc(Str(<<"\"", "x", "\"">>), "string", JString(Str(<<"x">>))),
       Doc(Str(<<"-", "7">>), "int", JInt(-7)),
       Doc(Str(<<"t", "r", "u", "e">>), "bool", JBool(TRUE)) >>

Filler(i) == Fillers[((i - 1) % Len(Fillers)) + 1]

\* The key of the i-th entry of an object: "a", "b", ...
Key(i) == <<Ch("a") + (i - 1)>>

\* The n elements of a container whose first element is d.
Elems(d, n) == [i \in 1..n |-> IF i = 1 THEN d ELSE Filler(i - 1)]

\* An array document of n elements; containers of even length are spaced.
ArrayDoc(d, n) ==
    LET es == Elems(d, n)
        sep == IF n % 2 = 0 THEN Str(<<",", " ">>) ELSE Str(<<",">>)
        pad == IF n % 2 = 0 THEN Str(<<" ">>) ELSE <<>>
    IN  Doc(Str(<<"[">>) \o pad \o Join([i \in 1..n |-> es[i].t], sep) \o pad \o Str(<<"]">>),
            "array", JArray([i \in 1..n |-> es[i].v]))

\* An object document of n entries; containers of odd length are spaced.
ObjectDoc(d, n) ==
    LET es == Elems(d, n)
        sep == IF n % 2 = 1 THEN Str(<<",", " ">>) ELSE Str(<<",">>)
        pad == IF n % 2 = 1 THEN Str(<<" ">>) ELSE <<>>
        col == IF n % 2 = 1 THEN Str(<<":", " ">>) ELSE Str(<<":">>)
        entry == [i \in 1..n |-> <<Ch("\"")>> \o Key(i) \o <<Ch("\"")>> \o col \o es[i].t]
    IN  Doc(Str(<<"{">>) \o pad \o Join(entry, sep) \o pad \o Str(<<"}">>),
            "object", JObject([k \in {Key(i) : i \in 1..n} |->
                                  es[CHOOSE i \in 1..n : Key(i) = k].v]))

RECURSIVE Nested(_)
\* The documents nested exactly d deep.
Nested(d) ==
    IF d = 0 THEN CoreDocs
    ELSE UNION {{ArrayDoc(x, n), ObjectDoc(x, n)} : x \in Nested(d - 1), n \in 1..MaxLen}

Docs == ScalarDocs \cup EmptyDocs \cup UNION {Nested(d) : d \in 1..MaxDepth}

(***************************************************************************)
(* An input is a document, or a document spoilt in one place:              *)
(*   doc             the document, bare or with white space around it      *)
(*   tail            the document followed by text that cannot extend it   *)
(*   trailing_comma  a comma put before a bracket that closes a container  *)
(*                   with elements                                         *)
(*   double_comma    a comma written twice                                 *)
(*   unterminated    the text cut before a closing bracket                 *)
(*   ends_in_comma   the text cut before a bracket that closes a container *)
(*                   with elements, and a comma put there                  *)
(*   bad_unicode     a string literal with a malformed \u escape           *)
(* or a text that is no document at all:                                   *)
(*   literal         a string literal, closed or not, with the characters   *)
(*                   it spells (res) and the text behind its closing quote  *)
(*                   (rest)                                                 *)
(*   raw             a text as it is: empty, blank, a number with something *)
(*                   behind it, a literal misspelt, a character that opens  *)
(*                   no value                                               *)
(* No string of a document holds a bracket or a comma, so a bracket or a   *)
(* comma of the text is one of the grammar.                                *)
(***************************************************************************)
Tails ==
    { Str(<<",", " ", "t", "a", "i", "l">>),
      Str(<<" ", "]", " ", "x">>),
      Str(<<" ", ",", "1", " ">>) }

\* The last character before position i that is no white space (0: none).
RECURSIVE PrevSignificant(_, _)
PrevSignificant(t, i) ==
    IF i <= 1 THEN 0
    ELSE IF IsSpace(t[i - 1]) THEN PrevSignificant(t, i - 1)
    ELSE t[i - 1]

\* Where a container with elements closes.
ClosePositions(t) ==
    { i \in 1..Len(t) : t[i] \in {Ch("]"), Ch("}")}
                        /\ PrevSignificant(t, i) \notin {Ch("["), Ch("{")} }

CommaPositions(t) == { i \in 1..Len(t) : t[i] = Ch(",") }

\* A \u escape that is malformed: fewer than 4 hex digits before the closing
\* quote ("short"), or 4 characters that are not all hex digits ("nonhex").
BadEscapes ==
    { [why |-> "short", hex |-> <<>>],
      [why |-> "short", hex |-> Str(<<"1", "2">>)],
      [why |-> "short", hex |-> Str(<<"1", "2", "a">>)],
      [why |-> "nonhex", hex |-> Str(<<"1", "2", "3", "z">>)],
      [why |-> "nonhex", hex |-> Str(<<"z", "0", "4", "1">>)],
      [why |-> "nonhex", hex |-> Str(<<"0", "0", " ", "1">>)],
      [why |-> "nonhex", hex |-> Str(<<"+", "0", "4", "1">>)] }

\* What follows the closing quote of the literal: nothing, or more text; and
\* "cut": the text ends with the escape, before any closing quote.
BadContexts == {"end", "more", "cut"}

\* A string literal: the text raw, whether a quote that is not escaped closes
\* it, the characters it spells and the text behind the closing quote.
Literal(raw, closed, res, rest) ==
    [kind |-> "literal", raw |-> raw, closed |-> closed, res |-> res, rest |-> rest]

Literals ==
    { Literal(Str(<<"\"", "\\", "b", "\\", "f", "\\", "n", "\\", "r", "\\", "t", "\"">>), TRUE,
              <<Ctl.b, Ctl.f, Ctl.n, Ctl.r, Ctl.t>>, <<>>),
      Literal(Str(<<"\"", "\\", "\"", "\\", "\\", "\\", "/", "\\", "x", "\"">>), TRUE,
              Str(<<"\"", "\\", "/", "x">>), <<>>),
      Literal(Str(<<"\"", "\\", "u", "0", "0", "4", "1", "\\", "u", "0", "0", "e", "9",
                    "\\", "u", "2", "0", "A", "C", "\"">>), TRUE,
              <<65, 233, 8364>>, <<>>),
      Literal(Str(<<"\"", "\\", "u", "d", "8", "3", "d", "\"">>), TRUE, <<55357>>, <<>>),
      Literal(Str(<<" ", "\"", "a", "\"", " ", ",", " ", "1">>), TRUE,
              Str(<<"a">>), Str(<<" ", ",", " ", "1">>)),
      Literal(Str(<<"\"", "a", "\"", "b", "\"", "c", "\"">>), TRUE,
              Str(<<"a">>), Str(<<"b", "\"", "c", "\"">>)),
      Literal(Str(<<"\"", " ", "\\", "\\", "\"", "\"">>), TRUE,
              Str(<<" ", "\\">>), Str(<<"\"">>)),
      Literal(Str(<<"\"", "a", "b", "c">>), FALSE, <<>>, <<>>),
      Literal(Str(<<"\"", "a", "b", "c", "\\", "\"">>), FALSE, <<>>, <<>>),
      Literal(Str(<<"\"", "a", "\\">>), FALSE, <<>>, <<>>),
      Literal(Str(<<"\"">>), FALSE, <<>>, <<>>) }

\* The texts that are given as they are.
RawTexts ==
    { <<>>, <<Ch(" "), Ctl.t>>,
      Str(<<"x", "1">>), Str(<<" ", "?">>), Str(<<"T", "r", "u", "e">>),
      Str(<<"t", "r", "U", "e">>), Str(<<"n", "U", "l", "l">>), Str(<<"t", "r", "u">>),
      Str(<<"f", "a", "l", "s">>), Str(<<"t", "r", "u", "e", "x">>),
      Str(<<" ", "f", "a", "l", "s", "e", ",", "1">>), Str(<<"n", "u", "l", "l", ",">>),
      Str(<<"+", "5">>), Str(<<"-">>), Str(<<"1", "e", "1", "0">>),
      Str(<<"1", "2", "3", "x">>), Str(<<" ", "-", "1", ".", "5", "x">>), Str(<<"1", ".">>),
      Str(<<".", "5">>), Str(<<"0", "x", "1", "2">>), Str(<<"+", ".">>),
      Str(<<"1", ".", "5", ".", "2">>), Str(<<"7", " ", "8">>) }

Inputs ==
    [kind : {"doc"}, doc : Docs, pad : BOOLEAN]
    \cup [kind : {"raw"}, raw : RawTexts]
    \cup Literals
    \cup [kind : {"tail"}, doc : Docs, tail : Tails]
    \cup UNION {[kind : {"trailing_comma"}, doc : {d}, at : ClosePositions(d.t)] : d \in Docs}
    \cup UNION {[kind : {"double_comma"}, doc : {d}, at : CommaPositions(d.t)] : d \in Docs}
    \cup UNION {[kind : {"unterminated"}, doc : {d}, at : ClosePositions(d.t)] : d \in Docs}
    \cup UNION {[kind : {"ends_in_comma"}, doc : {d}, at : ClosePositions(d.t)] : d \in Docs}
    \cup [kind : {"bad_unicode"}, esc : BadEscapes, ctx : BadContexts]

\* The text of an input.
Render(i) ==
    CASE i.kind \in {"raw", "literal"} -> i.raw
      [] i.kind = "doc" ->
           IF i.pad THEN <<Ch(" "), Ctl.t>> \o i.doc.t \o <<Ctl.n, Ch(" ")>> ELSE i.doc.t
      [] i.kind = "tail" -> i.doc.t \o i.tail
      [] i.kind = "trailing_comma" ->
           SubSeq(i.doc.t, 1, i.at - 1) \o <<Ch(",")>> \o From(i.doc.t, i.at - 1)
      [] i.kind = "double_comma" ->
           SubSeq(i.doc.t, 1, i.at) \o <<Ch(",")>> \o From(i.doc.t, i.at)
      [] i.kind = "unterminated" -> SubSeq(i.doc.t, 1, i.at - 1)
      [] i.kind = "ends_in_comma" -> SubSeq(i.doc.t, 1, i.at - 1) \o <<Ch(",")>>
      [] i.kind = "bad_unicode" ->
           Str(<<"\"", "a", "b", "\\", "u">>) \o i.esc.hex
           \o (CASE i.ctx = "end" -> Str(<<"\"">>)
                 [] i.ctx = "more" -> Str(<<"\"", ",", " ", "1", " ", "]">>)
                 [] i.ctx = "cut" -> <<>>)

(***************************************************************************)
(* SpecParse: a text is drawn and the parse routines are called on it.     *)
(***************************************************************************)
NoCall == [name |-> "none"]
NoOut == [panic |-> FALSE]

InitParse ==
    /\ inp \in Inputs
    /\ txt = Render(inp)
    /\ self = NilValue
    /\ other = NilValue
    /\ pre = NilValue
    /\ op = NoCall
    /\ out = NoOut

CallParseValue ==
    /\ op' = [name |-> "ParseValue"]
    /\ out' = ParseValue(txt)
    /\ UNCHANGED <<inp, txt, self, other, pre>>

CallParseObject ==
    /\ op' = [name |-> "parseObject"]
    /\ out' = parseObject(txt)
    /\ UNCHANGED <<inp, txt, self, other, pre>>

CallParseArray ==
    /\ op' = [name |-> "parseArray"]
    /\ out' = parseArray(txt)
    /\ UNCHANGED <<inp, txt, self, other, pre>>

CallParseString ==
    /\ op' = [name |-> "parseString"]
    /\ out' = parseString(txt)
    /\ UNCHANGED <<inp, txt, self, other, pre>>

CallParseNumber ==
    /\ op' = [name |-> "parseNumber"]
    /\ out' = parseNumber(txt)
    /\ UNCHANGED <<inp, txt, self, other, pre>>

CallParseBool ==
    /\ op' = [name |-> "parseBool"]
    /\ out' = parseBool(txt)
    /\ UNCHANGED <<inp, txt, self, other, pre>>

CallParseNull ==
    /\ op' = [name |-> "parseNull"]
    /\ out' = parseNull(txt)
    /\ UNCHANGED <<inp, txt, self, other, pre>>

NextParse ==
    \/ CallParseValue
    \/ CallParseObject
    \/ CallParseArray
    \/ CallParseString
    \/ CallParseNumber
    \/ CallParseBool
    \/ CallParseNull

SpecParse == InitParse /\ [][NextParse]_vars

(***************************************************************************)
(* Properties of the parse routines, under SpecParse.                      *)
(***************************************************************************)
\* The routine for a document of kind k.
RoutineOf(k) ==
    CASE k \in {"int", "float"} -> "parseNumber"
      [] k = "bool" -> "parseBool"
      [] k = "null" -> "parseNull"
      [] k = "string" -> "parseString"
      [] k = "array" -> "parseArray"
      [] k = "object" -> "parseObject"

\* Two parse results are the same value: both none, or Equal says true.
SameValue(a, b) ==
    IF a = NilValue \/ b = NilValue THEN a = b ELSE Equal(a, b) = {"true"}

Returned == op # NoCall /\ ~out.panic

\* C2: ParseValue of a well-formed document, bare or with white space around
\* it, returns a nil error and an empty tail.
C2_WellFormedParsesClean ==
    (inp.kind = "doc" /\ op.name = "ParseValue")
        => (Returned /\ out.e = "nil" /\ out.t = <<>>)

\* C3: a well-formed value followed by text that cannot extend it parses with a
\* nil error to the value the text of the value alone parses to, and the tail is
\* the following text less its leading white space, and is not empty.
C3_ValueThenTail ==
    (inp.kind = "tail" /\ op.name \in {"ParseValue", RoutineOf(inp.doc.k)})
        => /\ Returned
           /\ out.e = "nil"
           /\ SameValue(out.v, ParseValue(inp.doc.t).v)
           /\ out.t # <<>>
           /\ TrimLeft(out.t) = TrimLeft(inp.tail)

\* C5: parsing a string literal with a malformed \u escape panics; it returns
\* neither an error nor a value.
C5_BadUnicodePanics ==
    (inp.kind = "bad_unicode" /\ op.name \in {"ParseValue", "parseString"})
        => out.panic

Malformed == {"trailing_comma", "double_comma", "unterminated"}

\* C6: parsing an object or array text with a trailing comma, with two commas
\* in a row, or cut before its closing bracket returns a non-nil error.
C6_MalformedContainerIsError ==
    (inp.kind \in Malformed /\ op.name \in {"ParseValue", "parseObject", "parseArray"})
        => (Returned /\ out.e # "nil")

\* A document that parses cleanly was spoilt at its outermost closing bracket,
\* and the routine for it returned an error.
C6_Witness ==
    /\ inp.kind \in Malformed
    /\ inp.kind # "double_comma" => inp.at = Len(inp.doc.t)
    /\ LET r == ParseValue(inp.doc.t) IN ~r.panic /\ r.e = "nil" /\ r.t = <<>>
    /\ op.name = RoutineOf(inp.doc.k)
    /\ Returned
    /\ out.e # "nil"

(***************************************************************************)
(* Spec: a value of one of the six variants is made with new(T) and its    *)
(* methods Set, Append, Insert and Parse are called on it, one call after  *)
(* another; a panic is recovered and the program goes on with the receiver *)
(* as the panic left it; or a constructor makes a container from a native *)
(* sequence or mapping (or from another Array) and the program goes on     *)
(* with that container.  self is the receiver, pre the receiver before the *)
(* last call (for a constructor: the new container that it fills), op the  *)
(* call with its arguments (inp and txt: the text of a Parse), out what it *)
(* returned.  An argument is a fresh value or the receiver itself; an      *)
(* Array is not appended to itself, and an Array holds at most MaxLen      *)
(* elements.                                                               *)
(***************************************************************************)
NoInput == [kind |-> "none"]

\* The candidates of Set.
SetCandidates ==
    << NilArg,
      Native("int", 5), Native("int8", -3), Native("int64", 7),
      Native("float64", [neg |-> FALSE, num |-> 25, exp |-> 1]),
      Native("float32", [neg |-> TRUE, num |-> 4, exp |-> 0]),
      Native("bool", TRUE),
      Native("string", Str(<<"1", "2">>)),
      Native("string", Str(<<"t", "r", "u", "e">>)),
      Native("string", Str(<<"x">>)),
      Native("[]JsonValue", <<JInt(1), NilValue>>),
      Native("[]JsonValue", <<JInt(1)>>),
      Native("map[string]JsonValue", [k \in {Key(1)} |-> JInt(1)]),
      Native("JsonObject", JObject([k \in {Key(2)} |-> NilValue])),
      Ptr(JInt(9)), Ptr(JString(Str(<<"p">>))),
      Ptr(JArray(<<JBool(TRUE)>>)), Ptr(New("array")),
      Ptr(JObject([k \in {Key(1)} |-> JString(Str(<<"q">>))])), Ptr(New("object")) >>

\* What is appended and inserted.
Elements ==
    << NilArg, Native("int", 1), Ptr(JInt(1)), Ptr(JString(Str(<<"a">>))), Ptr(New("object")) >>

\* The i-th of the arguments cs, and past them the receiver x itself.
ArgAt(cs, i, x) == IF i <= Len(cs) THEN cs[i] ELSE SelfPtr(x)

Keys == {Key(1), Key(2)}

\* The documents that Parse is given: the scalars, the empty containers and
\* the containers of integers.
ParseDocs ==
    ScalarDocs \cup EmptyDocs
    \cup UNION {{ArrayDoc(x, n), ObjectDoc(x, n)} : x \in {d \in CoreDocs : d.k = "int"}, n \in 1..MaxLen}

\* The texts that Parse is given: the documents whole or spoilt; of the
\* inputs with tails, those with the first tail; of the bad escapes, those in
\* a closed literal.
ParseInputs ==
    { i \in Inputs :
        CASE i.kind \in {"raw", "literal", "ends_in_comma"} -> FALSE
          [] i.kind = "bad_unicode" -> i.ctx # "cut"
          [] i.kind = "tail" -> i.doc \in ParseDocs /\ i.tail = Str(<<",", " ", "t", "a", "i", "l">>)
          [] OTHER -> i.doc \in ParseDocs }

\* The method of the receiver's variant.
SetOf(x, c) ==
    CASE x.tag = "int" -> JsonInt_Set(x, c)
      [] x.tag = "float" -> JsonFloat_Set(x, c)
      [] x.tag = "bool" -> JsonBool_Set(x, c)
      [] x.tag = "string" -> JsonString_Set(x, c)
      [] x.tag = "array" -> JsonArray_Set(x, c)
      [] x.tag = "object" -> JsonObject_Set(x, c)

AppendOf(x, c) ==
    CASE x.tag = "int" -> JsonInt_Append(x, c)
      [] x.tag = "float" -> JsonFloat_Append(x, c)
      [] x.tag = "bool" -> JsonBool_Append(x, c)
      [] x.tag = "string" -> JsonString_Append(x, c)
      [] x.tag = "array" -> JsonArray_Append(x, c)
      [] x.tag = "object" -> JsonObject_Append(x, c)

InsertOf(x, n, c) ==
    CASE x.tag = "int" -> JsonInt_Insert(x, n, c)
      [] x.tag = "float" -> JsonFloat_Insert(x, n, c)
      [] x.tag = "bool" -> JsonBool_Insert(x, n, c)
      [] x.tag = "string" -> JsonString_Insert(x, n, c)
      [] x.tag = "array" -> JsonArray_Insert(x, n, c)
      [] x.tag = "object" -> JsonObject_Insert(x, n, c)

ParseOf(x, s) ==
    CASE x.tag = "int" -> JsonInt_Parse(x, s)
      [] x.tag = "float" -> JsonFloat_Parse(x, s)
      [] x.tag = "bool" -> JsonBool_Parse(x, s)
      [] x.tag = "string" -> JsonString_Parse(x, s)
      [] x.tag = "array" -> JsonArray_Parse(x, s)
      [] x.tag = "object" -> JsonObject_Parse(x, s)

\* How many elements Set(c) or Append(c) adds to an Array.
Growth(c) == IF c.kind = "[]JsonValue" THEN Len(c.val) ELSE 1

Init ==
    /\ \E tag \in Tags : self = New(tag)
    /\ pre = self
    /\ other = NilValue
    /\ inp = NoInput
    /\ txt = <<>>
    /\ op = NoCall
    /\ out = NoOut

\* The call returned r.
After(call, r) ==
    /\ pre' = self
    /\ self' = r.self
    /\ op' = call
    /\ out' = [e |-> r.e, panic |-> r.panic]
    /\ other' = other

CallSet ==
    \E i \in 1..(Len(SetCandidates) + 1) :
        LET c == ArgAt(SetCandidates, i, self) IN
        /\ (self.tag = "array" /\ c.kind = "[]JsonValue") => Len(self.elems) + Growth(c) <= MaxLen
        /\ After([name |-> "Set", arg |-> c], SetOf(self, c))
        /\ inp' = NoInput
        /\ txt' = <<>>

CallAppend ==
    \E i \in 1..(Len(Elements) + (IF self.tag = "array" THEN 0 ELSE 1)) :
        LET c == ArgAt(Elements, i, self) IN
        /\ self.tag = "array" => Len(self.elems) + Growth(c) <= MaxLen
        /\ After([name |-> "Append", arg |-> c], AppendOf(self, c))
        /\ inp' = NoInput
        /\ txt' = <<>>

CallInsert ==
    \E n \in Keys, i \in 1..(Len(Elements) + 1) :
        LET c == ArgAt(Elements, i, self) IN
        /\ After([name |-> "Insert", key |-> n, arg |-> c], InsertOf(self, n, c))
        /\ inp' = NoInput
        /\ txt' = <<>>

\* What the constructors are given.
NewCandidates ==
    << Native("[]JsonValue", <<>>),
       Native("[]JsonValue", <<JInt(1)>>),
       Ptr(JArray(<<JBool(TRUE)>>)),
       Native("map[string]JsonValue", NoEntries),
       Native("map[string]JsonValue", [k \in {Key(1)} |-> JInt(1)]) >>

\* The constructor for the argument: NewJsonObject for a mapping,
\* NewJsonArray for anything else.
NewOf(c) ==
    IF c.kind = "map[string]JsonValue" THEN Done(NewJsonObject(c.val)) ELSE NewJsonArray(c)

\* The container that the constructor fills: new(JsonObject), new(JsonArray).
NewReceiver(c) == IF c.kind = "map[string]JsonValue" THEN New("object") ELSE New("array")

CallNew ==
    \E i \in 1..Len(NewCandidates) :
        \E r \in {NewOf(NewCandidates[i])} :
            /\ pre' = NewReceiver(NewCandidates[i])
            /\ self' = r.self
            /\ op' = [name |-> "New", arg |-> NewCandidates[i]]
            /\ out' = [e |-> r.e, panic |-> r.panic]
            /\ other' = other
            /\ inp' = NoInput
            /\ txt' = <<>>

CallParse ==
    \E i \in ParseInputs :
        /\ After([name |-> "Parse"], ParseOf(self, Render(i)))
        /\ inp' = i
        /\ txt' = Render(i)

Next ==
    \/ CallSet
    \/ CallAppend
    \/ CallInsert
    \/ CallParse
    \/ CallNew

Spec == Init /\ [][Next]_vars

(***************************************************************************)
(* Properties of the methods, under Spec.                                  *)
(***************************************************************************)
\* The last call was Insert on an Object with the Object itself as value.
SelfInsert ==
    /\ op.name = "Insert"
    /\ pre.tag = "object"
    /\ op.arg.kind = "*Json"
    /\ op.arg.isself

\* C4: Insert(k, o) on Object o with o itself as the value panics, for every
\* key k, and o holds after it the entries it held before: none added, none
\* replaced.
C4_SelfInsertRejected ==
    SelfInsert => (out.panic /\ self.entries = pre.entries)

\* An Object with an entry was inserted into itself under a key it does not
\* hold.
C4_Witness ==
    /\ SelfInsert
    /\ DOMAIN pre.entries # {}
    /\ op.key \notin DOMAIN pre.entries
    /\ out.panic

\* The kind of native value an argument is.
ClassOf(kind) ==
    CASE kind \in {"int", "int8", "int16", "int32", "int64"} -> "integer"
      [] kind \in {"float32", "float64"} -> "float"
      [] kind = "bool" -> "boolean"
      [] kind = "string" -> "text"
      [] kind = "[]JsonValue" -> "sequence"
      [] kind \in {"map[string]JsonValue", "JsonObject"} -> "mapping"
      [] OTHER -> "none"

\* The kinds of native value a variant is set from: its own, and for the
\* scalars a text to parse.
Accepts(tag) ==
    CASE tag = "int" -> {"integer", "text"}
      [] tag = "float" -> {"float", "text"}
      [] tag = "bool" -> {"boolean", "text"}
      [] tag = "string" -> {"text"}
      [] tag = "array" -> {"sequence"}
      [] tag = "object" -> {"mapping"}

\* The last call misused the receiver.
Misuse ==
    \/ op.name = "Set" /\ ClassOf(op.arg.kind) \notin Accepts(pre.tag) \cup {"none"}
    \/ op.name = "Append" /\ pre.tag # "array"
    \/ op.name = "Insert" /\ pre.tag # "object"

\* C7: Set with a native value of an incompatible type, Append on a variant
\* other than Array and Insert on a variant other than Object panic, return no
\* error, and leave the receiver as it was.
C7_MisusePanics ==
    Misuse => (out.panic /\ out.e = "nil" /\ self = pre)

\* A receiver that had been given a payload was Set from a native value of an
\* incompatible type.
C7_Witness ==
    /\ Misuse
    /\ op.name = "Set"
    /\ pre # New(pre.tag)
    /\ out.panic

\* A document of kind k is in the grammar of the variant tag: a Float is
\* written as an integer too.
Fits(tag, k) == tag = k \/ (tag = "float" /\ k = "int")

\* The payload that document d denotes for the variant tag.
Denoted(tag, d) ==
    IF tag = "float" /\ d.k = "int"
    THEN JFloat([neg |-> d.v.int < 0, num |-> IF d.v.int < 0 THEN 0 - d.v.int ELSE d.v.int,
                 exp |-> 0])
    ELSE d.v

\* C8: Parse succeeds only on a text that is, whole, a document of the
\* receiver's variant, and the receiver then holds what the document denotes;
\* on every other text Parse returns an error (it does not panic) and the
\* receiver is as it was before the call.
C8_ParseAllOrNothing ==
    op.name = "Parse" =>
        /\ ~out.panic
        /\ IF out.e = "nil"
           THEN inp.kind = "doc" /\ Fits(pre.tag, inp.doc.k) /\ self = Denoted(pre.tag, inp.doc)
           ELSE self = pre

\* The last call was Set on a container with a candidate it takes: another
\* container of its variant, or a native sequence or mapping.
ContainerSet ==
    /\ op.name = "Set"
    /\ pre.tag \in {"array", "object"}
    /\ \/ IsPtrTo(op.arg, pre.tag)
       \/ ClassOf(op.arg.kind) \in Accepts(pre.tag)

\* The elements of a candidate of Array.Set, the entries of one of Object.Set.
ContentsOf(c) ==
    CASE IsPtrTo(c, "array") -> c.val.elems
      [] c.kind = "[]JsonValue" -> c.val
      [] IsPtrTo(c, "object") \/ c.kind = "JsonObject" -> c.val.entries
      [] c.kind = "map[string]JsonValue" -> c.val

\* C12: after Set(c) on an Array or an Object, the container holds exactly the
\* elements or entries of c, and nothing of what it held before.
C12_SetReplaces ==
    ContainerSet =>
        /\ ~out.panic
        /\ IF pre.tag = "array" THEN self.elems = ContentsOf(op.arg)
           ELSE self.entries = ContentsOf(op.arg)

\* The text s parses as the scalar variant tag.
TextParses(tag, s) ==
    CASE tag = "int" -> ParseInt(s, 10).ok
      [] tag = "float" -> ParseFloat(s).ok
      [] tag = "bool" -> ToLower(TrimSpace(s)) \in boolStringValues

\* The value of the variant tag that the text s parses to.
TextPayload(tag, s) ==
    CASE tag = "int" -> JInt(ParseInt(s, 10).val)
      [] tag = "float" -> JFloat(ParseFloat(s).val)
      [] tag = "bool" -> JBool(ToLower(TrimSpace(s)) = Str(<<"t", "r", "u", "e">>))

\* The last call was Set with a text on an Integer, a Float or a Boolean.
TextSet ==
    /\ op.name = "Set"
    /\ op.arg.kind = "string"
    /\ pre.tag \in {"int", "float", "bool"}

\* C13: Set with a text on an Integer, a Float or a Boolean returns with the
\* payload the text parses to when the text parses as the variant; when it does
\* not, Set panics and does not return.
C13_TextSetAdoptsOrPanics ==
    TextSet =>
        IF TextParses(pre.tag, op.arg.val)
        THEN ~out.panic /\ self = TextPayload(pre.tag, op.arg.val)
        ELSE out.panic

(***************************************************************************)
(* SpecRel: two values are at hand, self and other, and self is compared   *)
(* with other, or serialized and parsed back into a fresh value of its     *)
(* variant, which other then is.  The values are the scalars below and the *)
(* containers of up to MaxLen slots; a slot is absent (the nil interface), *)
(* a scalar, null or not, or a container with an absent slot.              *)
(***************************************************************************)
Slots ==
    { NilValue, NilPtr("int"), JInt(1), JObject([k \in {Key(1)} |-> NilValue]) }

ValuesOf(tag) ==
    CASE tag = "int" -> {NilPtr("int"), JInt(0), JInt(1), JInt(-20)}
      [] tag = "float" ->
           {NilPtr("float"), JFloat(ZeroFloat), JFloat([neg |-> FALSE, num |-> 15, exp |-> 1])}
      [] tag = "bool" -> {NilPtr("bool"), JBool(TRUE), JBool(FALSE)}
      [] tag = "string" ->
           {NilPtr("string"), JString(<<>>), JString(Str(<<"a">>)),
            JString(<<Ch("\""), Ch("\\"), Ctl.n>>), JString(<<Ctl.a>>)}
      [] tag = "array" ->
           {NilPtr("array"), New("array")}
           \cup {JArray(es) : es \in UNION {[1..n -> Slots] : n \in 0..MaxLen}}
      [] tag = "object" ->
           {NilPtr("object"), New("object")}
           \cup {JObject(m) : m \in UNION {[ks -> Slots] : ks \in SUBSET {Key(i) : i \in 1..MaxLen}}}

\* What a value is compared with across the variants: of each variant the
\* nil pointer, the zero value and a value with a payload.
Representatives(tag) ==
    {NilPtr(tag), New(tag)}
    \cup (CASE tag = "int" -> {JInt(1)}
            [] tag = "float" -> {JFloat([neg |-> FALSE, num |-> 15, exp |-> 1])}
            [] tag = "bool" -> {JBool(TRUE)}
            [] tag = "string" -> {JString(Str(<<"a">>))}
            [] tag = "array" -> {JArray(<<JInt(1)>>)}
            [] tag = "object" -> {JObject([k \in {Key(1)} |-> JInt(1)])})

InitRel ==
    /\ \E tag \in Tags :
         /\ self \in ValuesOf(tag)
         /\ other \in ValuesOf(tag) \cup UNION {Representatives(t) : t \in Tags \ {tag}}
    /\ pre = NilValue
    /\ inp = NoInput
    /\ txt = <<>>
    /\ op = NoCall
    /\ out = NoOut

\* self.Equal(other): true, false or a panic.
CallEqual ==
    \E b \in Equal(self, other) :
        /\ op' = [name |-> "Equal"]
        /\ out' = [eq |-> b, panic |-> b = "panic"]
        /\ UNCHANGED <<inp, txt, self, other, pre>>

\* w := new(T); e := w.Parse(self.Json()); self.Equal(w)
CallRoundTrip ==
    \E t \in {Json(self)} :
        \E r \in {ParseOf(New(self.tag), t)} :
            \E b \in IF r.panic THEN {"panic"} ELSE Equal(self, r.self) :
                /\ op' = [name |-> "RoundTrip"]
                /\ txt' = t
                /\ other' = r.self
                /\ out' = [e |-> r.e, eq |-> b, panic |-> b = "panic"]
                /\ UNCHANGED <<inp, self, pre>>

NextRel ==
    \/ CallEqual
    \/ CallRoundTrip

SpecRel == InitRel /\ [][NextRel]_vars

(***************************************************************************)
(* Properties of Equal and of the round trip, under SpecRel.               *)
(***************************************************************************)
\* C1: a value that is no Float, serialized and parsed back into a fresh value
\* of its variant, parses with no error to a value that it is Equal to.
C1_RoundTrip ==
    (op.name = "RoundTrip" /\ self.tag # "float")
        => (~out.panic /\ out.e = "nil" /\ out.eq = "true")

\* The null state of a value, as the variants define it: a nil pointer, the
\* empty String, an Array or Object without storage.
InNullState(v) ==
    \/ v.nilptr
    \/ v.tag = "string" /\ v.str = <<>>
    \/ v.tag \in {"array", "object"} /\ v.nilstore

\* C9: Equal is false for two values of different variants, also when both are
\* in their null state; two values of one variant in their null state are
\* Equal; and a value in its null state and a value of the same variant that is
\* not are never Equal, whichever of them is the receiver.
C9_EqualAndNull ==
    op.name = "Equal" =>
        /\ self.tag # other.tag => out.eq = "false"
        /\ (self.tag = other.tag /\ InNullState(self) /\ InNullState(other)) => out.eq = "true"
        /\ (self.tag = other.tag /\ InNullState(self) # InNullState(other)) => out.eq = "false"

\* A null Integer was compared with a value of another variant in its null
\* state.
C9_Witness ==
    /\ op.name = "Equal"
    /\ self = NilPtr("int")
    /\ other.tag = "string"
    /\ InNullState(other)
    /\ out.eq = "false"

\* C10: for a and b of one variant, a.Equal(a) is true, and a.Equal(b) and
\* b.Equal(a) both return, and return the same.
C10_EqualReflexiveSymmetric ==
    (op.name = "Equal" /\ self.tag = other.tag)
        => /\ ~out.panic
           /\ Equal(other, self) = {out.eq}
           /\ self = other => out.eq = "true"

\* Two slots of a container match: both are null or absent, or both are
\* present and the one is Equal to the other.
SlotsMatch(v, o) ==
    \/ SlotIsNull(v) /\ SlotIsNull(o)
    \/ v # NilValue /\ o # NilValue /\ Equal(v, o) = {"true"}

\* What the contents of two containers of one variant that are not null make
\* of their equality.
ContentsMatch(a, b) ==
    IF a.tag = "array"
    THEN Len(a.elems) = Len(b.elems)
         /\ \A i \in 1..Len(a.elems) : SlotsMatch(a.elems[i], b.elems[i])
    ELSE DOMAIN a.entries = DOMAIN b.entries
         /\ \A k \in DOMAIN a.entries : SlotsMatch(a.entries[k], b.entries[k])

\* C11: for two Arrays, or two Objects, that are not null, Equal returns, and
\* returns true exactly when they have the same length (the same keys) and the
\* two slots at every index (under every key) are both null or absent, or
\* Equal; in every other case it returns false.
C11_ContainerEqualityDeepTotal ==
    (op.name = "Equal" /\ self.tag = other.tag /\ self.tag \in {"array", "object"}
     /\ ~InNullState(self) /\ ~InNullState(other))
        => out.eq = B(ContentsMatch(self, other))

\* The text of a slot of a container: null for an absent slot.
SlotText(o) == IF o = NilValue THEN NullText ELSE Json(o)

\* The orders in which the keys ks can be written.
Orders(ks) ==
    { f \in [1..Cardinality(ks) -> ks] : \A i, j \in DOMAIN f : i # j => f[i] # f[j] }

\* The order f is ascending.
Ascending(f) == \A i, j \in DOMAIN f : i < j => StrLess(f[i], f[j])

\* The text of Array a: its elements' texts in order, between [ and ].
ArrayText(a) ==
    Str(<<"[", " ">>)
    \o Join([i \in 1..Len(a.elems) |-> SlotText(a.elems[i])], Str(<<",", " ">>))
    \o Str(<<" ", "]">>)

\* The text of Object o with its keys in the order f, between { and }.
ObjectText(o, f) ==
    Str(<<"{", " ">>)
    \o Join([i \in DOMAIN f |-> Quote(f[i]) \o Str(<<":", " ">>) \o SlotText(o.entries[f[i]])],
            Str(<<",", " ">>))
    \o Str(<<" ", "}">>)

\* C14: an Array that is not null serializes as "[ ", the texts of its elements
\* in order joined by ", ", and " ]"; an Object that is not null as "{ ", its
\* entries "key": value joined by ", " with the keys ascending, and " }"; an
\* absent slot is written null.
C14_ContainerTextShape ==
    (op.name = "RoundTrip" /\ self.tag \in {"array", "object"} /\ ~InNullState(self))
        => IF self.tag = "array" THEN txt = ArrayText(self)
           ELSE \E f \in Orders(DOMAIN self.entries) : Ascending(f) /\ txt = ObjectText(self, f)

\* An Object of two entries, one of them absent, was serialized.
C14_Witness ==
    /\ op.name = "RoundTrip"
    /\ self.tag = "object"
    /\ ~InNullState(self)
    /\ Cardinality(DOMAIN self.entries) >= 2
    /\ \E k \in DOMAIN self.entries : self.entries[k] = NilValue
    /\ \E k \in DOMAIN self.entries : self.entries[k] # NilValue

\* C21: a String that is not empty, serialized and parsed back into a fresh
\* String, parses with no error to the payload it had: the parser decodes
\* every escape that the serialization writes.
C21_StringEscapesRoundTrip ==
    (op.name = "RoundTrip" /\ self.tag = "string" /\ ~InNullState(self))
        => (~out.panic /\ out.e = "nil" /\ other.str = self.str)

(***************************************************************************)
(* More properties of the methods, under Spec.                             *)
(***************************************************************************)
\* C15: after any calls of Set, Append and Insert, Json() of the receiver is
\* the text null exactly when IsNull() is true, which is when the receiver is
\* in the null state of its variant; an empty container that is present is
\* not null.
C15_NullTextIffIsNull ==
    /\ (Json(self) = NullText) <=> IsNull(self)
    /\ IsNull(self) <=> InNullState(self)
    /\ (self.tag \in {"array", "object"} /\ ~self.nilstore) => ~IsNull(self)

\* An Object that was given storage, and holds no entry, after a call.
C15_Witness ==
    /\ op.name \in {"Set", "Append", "Insert"}
    /\ self.tag = "object"
    /\ ~self.nilstore
    /\ DOMAIN self.entries = {}
    /\ Json(self) # NullText

\* The argument c of Append or Insert is a JsonValue or nil, and the value
\* it stands for.
IsValueArg(c) == c.kind \in {"nil", "*Json"}
ArgValue(c) == IF c.kind = "nil" THEN NilValue ELSE c.val

\* C17: Append of a value on an Array adds that one element at the end and
\* leaves the elements before it as they were, in their order; Insert(key, v)
\* of a value on an Object that is not the value makes key map to v and leaves
\* the entry of every other key as it was.
C17_AppendAndInsertFrame ==
    /\ (op.name = "Append" /\ pre.tag = "array" /\ IsValueArg(op.arg))
           => (~out.panic /\ self.elems = pre.elems \o <<ArgValue(op.arg)>>)
    /\ (op.name = "Insert" /\ pre.tag = "object" /\ IsValueArg(op.arg) /\ ~SelfInsert)
           => /\ ~out.panic
              /\ DOMAIN self.entries = DOMAIN pre.entries \cup {op.key}
              /\ self.entries[op.key] = ArgValue(op.arg)
              /\ \A k \in DOMAIN pre.entries \ {op.key} : self.entries[k] = pre.entries[k]

\* Insert replaced the value of a key of an Object that holds another entry.
C17_Witness ==
    /\ op.name = "Insert"
    /\ pre.tag = "object"
    /\ op.key \in DOMAIN pre.entries
    /\ DOMAIN pre.entries # {op.key}
    /\ ~out.panic
    /\ self.entries[op.key] # pre.entries[op.key]

(***************************************************************************)
(* More properties of the parse routines, under SpecParse.                 *)
(***************************************************************************)
\* The slot got of the parser is what the element d of a document denotes: a
\* slot in the null state for the literal null, else a value Equal to d's.
SlotDenotes(got, d) ==
    IF d = NilValue THEN SlotIsNull(got) ELSE SameValue(got, d)

\* C16: parsing the text of an array of n elements returns no error and an
\* Array of length n whose elements are those of the text, in its order, with
\* a slot in the null state for each literal null.
C16_ArrayElementsInOrder ==
    (inp.kind = "doc" /\ inp.doc.k = "array" /\ inp.doc.v.elems # <<>>
     /\ op.name \in {"parseArray", "ParseValue"})
        => /\ Returned
           /\ out.e = "nil"
           /\ out.v # NilValue
           /\ out.v.tag = "array"
           /\ Len(out.v.elems) = Len(inp.doc.v.elems)
           /\ \A i \in 1..Len(inp.doc.v.elems) : SlotDenotes(out.v.elems[i], inp.doc.v.elems[i])

\* The routine that the first character c of a value stands for.
Selected(c) ==
    CASE c = Ch("{") -> "parseObject"
      [] c = Ch("[") -> "parseArray"
      [] c = Ch("\"") -> "parseString"
      [] IsDecDigit(c) \/ c \in {Ch("+"), Ch("-")} -> "parseNumber"
      [] c \in {Ch("t"), Ch("f")} -> "parseBool"
      [] c = Ch("n") -> "parseNull"
      [] OTHER -> "none"

\* What the routine called name returns for the text s.
ResultOf(name, s) ==
    CASE name = "parseObject" -> parseObject(s)
      [] name = "parseArray" -> parseArray(s)
      [] name = "parseString" -> parseString(s)
      [] name = "parseNumber" -> parseNumber(s)
      [] name = "parseBool" -> parseBool(s)
      [] name = "parseNull" -> parseNull(s)

\* What ParseValue is to return for the text whose trimmed form is s.
Dispatched(s) ==
    IF s = <<>> THEN Returned /\ out.e = "NoValue"
    ELSE IF Selected(s[1]) = "none" THEN Returned /\ out.e = "BadValue"
    ELSE /\ out = ResultOf(Selected(s[1]), txt)
         /\ s[1] \in {Ch("t"), Ch("f")} =>
              IF HasPrefix(s, Str(<<"t", "r", "u", "e">>)) THEN out.e = "nil" /\ out.v = JBool(TRUE)
              ELSE IF HasPrefix(s, Str(<<"f", "a", "l", "s", "e">>))
                   THEN out.e = "nil" /\ out.v = JBool(FALSE)
              ELSE out.e = "BadValue"
         /\ s[1] = Ch("n") =>
              IF HasPrefix(s, NullText) THEN out.e = "nil" /\ out.v = NilValue
              ELSE out.e = "BadValue"

\* C18: ParseValue trims the text and returns what the routine for its first
\* character returns: { object, [ array, " string, a digit or + or - number,
\* t or f boolean, n null; for an empty or blank text it returns a NoValue
\* error and for any other first character a BadValue error; true, false and
\* null are matched as prefixes in their exact case, and a text that only
\* starts like one of them is a BadValue error.
C18_DispatchByFirstCharacter ==
    op.name = "ParseValue" => Dispatched(TrimSpace(txt))

\* ParseValue was given trUe.
C18_Witness ==
    /\ op.name = "ParseValue"
    /\ txt = Str(<<"t", "r", "U", "e">>)
    /\ Returned
    /\ out.e = "BadValue"

\* How much of the trimmed text s the number routine is to consume: a sign,
\* the digits behind it and, with a point behind these, the point and the
\* digits behind it.
SignLen(s) == IF s # <<>> /\ s[1] \in {Ch("+"), Ch("-")} THEN 1 ELSE 0
IntegerLen(s) == SignLen(s) + DigitRun(s, SignLen(s) + 1)
HasPoint(s) == IntegerLen(s) < Len(s) /\ s[IntegerLen(s) + 1] = Ch(".")
NumberLen(s) ==
    IF HasPoint(s) THEN IntegerLen(s) + 1 + DigitRun(s, IntegerLen(s) + 2) ELSE IntegerLen(s)

\* What parseNumber is to return for the text whose trimmed form is s, not
\* empty: the tail is what follows the number, and the value is a Float with
\* a point and an Integer without one.
NumberTaken(s) ==
    /\ Returned
    /\ out.t = From(s, NumberLen(s))
    /\ out.v # NilValue
    /\ out.v.tag = IF HasPoint(s) THEN "float" ELSE "int"
    /\ (~HasPoint(s) /\ DigitRun(s, SignLen(s) + 1) > 0) =>
          (out.e = "nil" /\ out.v = JInt(ParseInt(SubSeq(s, 1, NumberLen(s)), 10).val))

\* C19: the number routine consumes a sign if there is one, the digits, and
\* only behind a point the fraction digits; it returns a Float exactly when it
\* consumed a point, else an Integer, and consumes no exponent: 1e10 is the
\* Integer 1 with the tail e10, and 123x the Integer 123 with the tail x.
C19_NumberConsumption ==
    (op.name = "parseNumber" /\ TrimSpace(txt) # <<>>) =>
        /\ NumberTaken(TrimSpace(txt))
        /\ txt = Str(<<"1", "e", "1", "0">>) =>
              (out.v = JInt(1) /\ out.t = Str(<<"e", "1", "0">>))
        /\ txt = Str(<<"1", "2", "3", "x">>) => (out.v = JInt(123) /\ out.t = Str(<<"x">>))

\* The number routine was given 1e10.
C19_Witness ==
    /\ op.name = "parseNumber"
    /\ txt = Str(<<"1", "e", "1", "0">>)
    /\ out.e = "nil"
    /\ out.t = Str(<<"e", "1", "0">>)

\* C20: the string routines end a literal at the first quote that is not
\* escaped and return the characters it spells (\b \f \n \r \t as control
\* characters, any other escaped character as itself, \u and 4 hex digits as
\* the character of that code) with the tail that starts behind the closing
\* quote; a literal that no quote closes is an error.
C20_StringScan ==
    (inp.kind = "literal" /\ op.name \in {"parseString", "ParseValue"})
        => /\ Returned
           /\ IF inp.closed
              THEN out.e = "nil" /\ out.v = JString(inp.res) /\ out.t = inp.rest
              ELSE out.e # "nil"

\* C22: a comma of an object or array text that no entry or value follows,
\* because the text ends behind it or because the closing bracket follows it,
\* makes the parse return an error of kind MissedValue.
C22_CommaWithoutValue ==
    (inp.kind \in {"trailing_comma", "ends_in_comma"}
     /\ op.name \in {"ParseValue", RoutineOf(inp.doc.k)})
        => (Returned /\ out.e = "MissedValue")

\* C23: ParseValue accepts the empty array and the empty object, with any
\* white space between the brackets: it returns no error, an empty tail and a
\* container that is empty but present.
C23_EmptyContainersParse ==
    (inp.kind = "doc" /\ inp.doc \in EmptyDocs /\ op.name = "ParseValue")
        => /\ Returned
           /\ out.e = "nil"
           /\ out.t = <<>>
           /\ out.v = inp.doc.v

(***************************************************************************)
(* Properties of the constructors and of Insert, under Spec.               *)
(***************************************************************************)
\* The last call was a constructor, given a sequence or mapping that exists
\* and is empty.
NewFromEmpty ==
    /\ op.name = "New"
    /\ op.arg.kind \in {"[]JsonValue", "map[string]JsonValue"}
    /\ DOMAIN op.arg.val = {}

\* C24: a container that NewJsonArray makes from an empty sequence, or
\* NewJsonObject from an empty mapping, is empty but present: IsNull() is
\* false and Json() is the empty brackets, not null.
C24_NewFromEmptyIsPresent ==
    NewFromEmpty
        => /\ ~out.panic
           /\ ~IsNull(self)
           /\ Json(self) = IF self.tag = "array" THEN Str(<<"[", " ", " ", "]">>)
                           ELSE Str(<<"{", " ", " ", "}">>)

\* C25: Insert(k, o) on Object o with o itself as the value is rejected and
\* leaves o as it was, its null state included: an Object that was in the
\* null state is in the null state afterwards and serializes as null.
C25_RejectedSelfInsertKeepsObject ==
    SelfInsert
        => /\ out.panic
           /\ self = pre
           /\ IsNull(pre) => (IsNull(self) /\ Json(self) = NullText)

(***************************************************************************)
(* Termination of the parse routines, under SpecParse.  The routines are   *)
(* defined by recursion on the text that remains, one unfolding for each   *)
(* round of a loop, so a call of the model has an outcome only if every    *)
(* loop of the call ends.  The texts that the loops of a call hand on are  *)
(* suffixes of its text, cut behind a value, a colon or a comma.           *)
(***************************************************************************)
\* t is what is left of s when a prefix of at least one character is taken.
ProperSuffix(t, s) == Len(t) < Len(s) /\ From(s, Len(s) - Len(t)) = t

\* t is what is left of s when a prefix is taken.
Suffix(t, s) == Len(t) <= Len(s) /\ From(s, Len(s) - Len(t)) = t

\* The outcome r of a routine on the text s: if it is a success, its tail is
\* a proper suffix of s without the white space around it.
Shrinks(s, r) == (~r.panic /\ r.e = "nil") => ProperSuffix(r.t, TrimSpace(s))

\* C26, as stated: every call of ParseValue has an outcome, and on success
\* the tail is a suffix of the text given and shorter than that text is
\* without the white space around it.
C26_TailIsSuffixOfInput ==
    (op.name = "ParseValue" /\ Returned /\ out.e = "nil")
        => (Suffix(out.t, txt) /\ Len(out.t) < Len(TrimSpace(txt)))

\* C26, amended: every call of a parse routine has an outcome (a result or a
\* panic), and on success the tail is a proper suffix of the text given
\* without the white space around it; so it is for ParseValue on every text
\* that is left of the input behind any number of characters, which are the
\* texts the loops can go on with.
C26_TailShrinks ==
    op # NoCall
        => /\ out # NoOut
           /\ Shrinks(txt, out)
           /\ \A k \in 1..Len(txt) :
                  op.name # "ParseValue" \/ Shrinks(From(txt, k), ParseValue(From(txt, k)))

\* ParseValue was given a container followed by more text that ends in white
\* space, and returned the container and a tail.
C26_Witness ==
    /\ op.name = "ParseValue"
    /\ inp.kind = "tail"
    /\ inp.doc.k \in {"array", "object"}
    /\ IsSpace(txt[Len(txt)])
    /\ Returned
    /\ out.e = "nil"
    /\ out.t # <<>>
    /\ ProperSuffix(out.t, TrimSpace(txt))
    /\ ~Suffix(out.t, txt)

=============================================================================
